---------------------------- MODULE Spec2Model ----------------------------
(***************************************************************************)
(* A model of scripts/update_changelog.py, the changelog generator of the  *)
(* LifeSmart Calculator repository.                                        *)
(*                                                                         *)
(* Text is modelled character by character: a Python str is a sequence of  *)
(* one-character strings (an emoji code point is written "U+xxxx").  The   *)
(* pure functions of the script (categorize_commit, clean_commit_message,  *)
(* format_commit_with_stats, generate_release_section) are operators; the  *)
(* run of main() is a state machine over the program counter pc, the       *)
(* locals of update_changelog_for_tag and the file CHANGELOG.md.           *)
(***************************************************************************)
EXTENDS Integers, Sequences, FiniteSets, TLC

VARIABLES
    \* harness of the pure functions
    op,                 \* the function last applied, "idle" before
    message,            \* a commit subject line
    insertions,         \* diff statistics of the commit
    deletions,
    commits,            \* the commit records handed to generate_release_section
    result,             \* what the function returned
    \* a run of main()
    pc,                 \* position of the run
    runs,               \* invocations of the script so far
    new_tag,            \* sys.argv[1]
    existing_tags,      \* update_changelog_for_tag: existing_tags
    git,                \* how each query of the fetcher ended
    unreleased_commits, \* update_changelog_for_tag: unreleased_commits
    release_date,       \* update_changelog_for_tag: release_date
    release_section,    \* update_changelog_for_tag: release_section
    existing_content,   \* update_changelog_for_tag: existing_content
    file_exists,        \* CHANGELOG.md exists
    file_content,       \* the text of CHANGELOG.md
    file_readable,      \* open(CHANGELOG.md, 'r') and read() succeed
    file_writable,      \* open(CHANGELOG.md, 'w') and write() succeed
    exit_code           \* the process exit status, -1 while running

fnVars  == <<op, message, insertions, deletions, commits, result>>
runVars == <<pc, runs, new_tag, existing_tags, git, unreleased_commits, release_date,
             release_section, existing_content, file_exists, file_content,
             file_readable, file_writable, exit_code>>
vars    == <<fnVars, runVars>>

---------------------------------------------------------------------------
(* Python str operations *)

Min(S) == CHOOSE x \in S : \A y \in S : x <= y

UpperCase == <<"A","B","C","D","E","F","G","H","I","J","K","L","M","N","O","P","Q","R","S","T","U","V",
      "W","X","Y","Z">>
LowerCase == <<"a","b","c","d","e","f","g","h","i","j","k","l","m","n","o","p","q","r","s","t","u","v",
      "w","x","y","z">>

\* str.isspace for the characters of the model (re's \s, str.strip)
Whitespace == {" ", "\t", "\n"}

\* c.lower()
lower_char(c) ==
    IF \E k \in 1..Len(UpperCase) : UpperCase[k] = c
    THEN LowerCase[CHOOSE k \in 1..Len(UpperCase) : UpperCase[k] = c]
    ELSE c

\* c.upper()
upper_char(c) ==
    IF \E k \in 1..Len(LowerCase) : LowerCase[k] = c
    THEN UpperCase[CHOOSE k \in 1..Len(LowerCase) : LowerCase[k] = c]
    ELSE c

\* s.lower()
lower(s) == [i \in 1..Len(s) |-> lower_char(s[i])]

\* s.startswith(prefix)
startswith(s, prefix) ==
    /\ Len(prefix) <= Len(s)
    /\ SubSeq(s, 1, Len(prefix)) = prefix

\* s.endswith(suffix)
endswith(s, suffix) ==
    /\ Len(suffix) <= Len(s)
    /\ SubSeq(s, Len(s) - Len(suffix) + 1, Len(s)) = suffix

\* the 0-based offsets at which sub occurs in s
Occurrences(sub, s) ==
    {i \in 0..(Len(s) - Len(sub)) : SubSeq(s, i + 1, i + Len(sub)) = sub}

\* sub in s
contains(s, sub) == Occurrences(sub, s) # {}

\* s.find(sub, start): the lowest offset >= start, -1 when there is none; a
\* negative start counts from the end of s
find(s, sub, start) ==
    LET from == IF start < 0 THEN (IF Len(s) + start < 0 THEN 0 ELSE Len(s) + start)
                ELSE start
        hits == {i \in Occurrences(sub, s) : i >= from}
    IN  IF hits = {} THEN -1 ELSE Min(hits)

\* s[:stop] and s[start:] for stop, start >= 0 (slices clamp to the length)
slice_to(s, stop) == SubSeq(s, 1, IF stop > Len(s) THEN Len(s) ELSE stop)
slice_from(s, start) == SubSeq(s, start + 1, Len(s))

\* s.lstrip(), s.rstrip(), s.strip()
lstrip(s) ==
    LET keep == {i \in 1..Len(s) : s[i] \notin Whitespace}
    IN  IF keep = {} THEN <<>> ELSE SubSeq(s, Min(keep), Len(s))
rstrip(s) ==
    LET keep == {i \in 1..Len(s) : s[i] \notin Whitespace}
    IN  IF keep = {} THEN <<>> ELSE SubSeq(s, 1, CHOOSE i \in keep : \A j \in keep : j <= i)
strip(s) == lstrip(rstrip(s))

\* str(n) for n >= 0: the decimal digits
Digits == <<"0","1","2","3","4","5","6","7","8","9">>
RECURSIVE str_int(_)
str_int(n) ==
    IF n < 10 THEN <<Digits[n + 1]>>
    ELSE str_int(n \div 10) \o <<Digits[(n % 10) + 1]>>

\* the concatenation of a sequence of strings
RECURSIVE concat(_)
concat(ss) == IF ss = <<>> THEN <<>> ELSE Head(ss) \o concat(Tail(ss))

---------------------------------------------------------------------------
(* COMMIT_TYPES, in the order the dict literal declares them *)

COMMIT_TYPES == <<
    [type |-> "feat",     key |-> <<"f","e","a","t">>,     emoji |-> <<"U+2728"," ","A","d","d","e","d">>,
     description |-> <<"N","e","w"," ","f","e","a","t","u","r","e","s"," ","a","n","d"," ","e","n","h","a","n",
      "c","e","m","e","n","t","s">>],
    [type |-> "fix",      key |-> <<"f","i","x">>,      emoji |-> <<"U+1F41B"," ","F","i","x","e","d">>,
     description |-> <<"B","u","g"," ","f","i","x","e","s"," ","a","n","d"," ","i","m","p","r","o","v","e","m",
      "e","n","t","s">>],
    [type |-> "docs",     key |-> <<"d","o","c","s">>,     emoji |-> <<"U+1F4DA"," ","D","o","c","u","m","e","n","t","a","t","i","o","n">>,
     description |-> <<"D","o","c","u","m","e","n","t","a","t","i","o","n"," ","u","p","d","a","t","e","s">>],
    [type |-> "style",    key |-> <<"s","t","y","l","e">>,    emoji |-> <<"U+1F3A8"," ","C","h","a","n","g","e","d">>,
     description |-> <<"C","o","d","e"," ","s","t","y","l","e"," ","a","n","d"," ","f","o","r","m","a","t","t",
      "i","n","g"," ","c","h","a","n","g","e","s">>],
    [type |-> "refactor", key |-> <<"r","e","f","a","c","t","o","r">>, emoji |-> <<"U+1F527"," ","C","h","a","n","g","e","d">>,
     description |-> <<"C","o","d","e"," ","r","e","f","a","c","t","o","r","i","n","g"," ","a","n","d"," ","r",
      "e","s","t","r","u","c","t","u","r","i","n","g">>],
    [type |-> "perf",     key |-> <<"p","e","r","f">>,     emoji |-> <<"U+1F680"," ","P","e","r","f","o","r","m","a","n","c","e">>,
     description |-> <<"P","e","r","f","o","r","m","a","n","c","e"," ","i","m","p","r","o","v","e","m","e","n",
      "t","s">>],
    [type |-> "test",     key |-> <<"t","e","s","t">>,     emoji |-> <<"U+1F9EA"," ","T","e","s","t","i","n","g">>,
     description |-> <<"T","e","s","t"," ","a","d","d","i","t","i","o","n","s"," ","a","n","d"," ","i","m","p",
      "r","o","v","e","m","e","n","t","s">>],
    [type |-> "chore",    key |-> <<"c","h","o","r","e">>,    emoji |-> <<"U+1F527"," ","C","h","a","n","g","e","d">>,
     description |-> <<"M","a","i","n","t","e","n","a","n","c","e"," ","t","a","s","k","s"," ","a","n","d"," ",
      "c","h","o","r","e","s">>],
    [type |-> "security", key |-> <<"s","e","c","u","r","i","t","y">>, emoji |-> <<"U+1F6E1","U+FE0F"," ","S","e","c","u","r","i","t","y">>,
     description |-> <<"S","e","c","u","r","i","t","y"," ","i","m","p","r","o","v","e","m","e","n","t","s">>],
    [type |-> "build",    key |-> <<"b","u","i","l","d">>,    emoji |-> <<"U+1F527"," ","C","h","a","n","g","e","d">>,
     description |-> <<"B","u","i","l","d"," ","s","y","s","t","e","m"," ","c","h","a","n","g","e","s">>],
    [type |-> "ci",       key |-> <<"c","i">>,       emoji |-> <<"U+1F527"," ","C","h","a","n","g","e","d">>,
     description |-> <<"C","I","/","C","D"," ","p","i","p","e","l","i","n","e"," ","c","h","a","n","g","e","s">>],
    [type |-> "revert",   key |-> <<"r","e","v","e","r","t">>,   emoji |-> <<"U+1F504"," ","C","h","a","n","g","e","d">>,
     description |-> <<"R","e","v","e","r","t","e","d"," ","c","h","a","n","g","e","s">>],
    [type |-> "remove",   key |-> <<"r","e","m","o","v","e">>,   emoji |-> <<"U+1F5D1","U+FE0F"," ","R","e","m","o","v","e","d">>,
     description |-> <<"R","e","m","o","v","e","d"," ","f","e","a","t","u","r","e","s"," ","a","n","d"," ","c",
      "l","e","a","n","u","p">>],
    [type |-> "deps",     key |-> <<"d","e","p","s">>,     emoji |-> <<"U+1F4E6"," ","C","h","a","n","g","e","d">>,
     description |-> <<"D","e","p","e","n","d","e","n","c","y"," ","u","p","d","a","t","e","s">>] >>

TypeIndex == 1..Len(COMMIT_TYPES)

---------------------------------------------------------------------------
(* categorize_commit *)

\* the word lists of the keyword branches, in the order of the elif chain
FeatWords == {<<"a","d","d">>, <<"n","e","w">>, <<"f","e","a","t","u","r","e">>, <<"i","m","p","l","e","m","e","n","t">>, <<"c","r","e","a","t","e">>, <<"i","n","t","r","o","d","u","c","e">>,
              <<"c","a","l","c","u","l","a","t","o","r">>, <<"c","h","a","r","t">>}
FixWords == {<<"f","i","x">>, <<"b","u","g">>, <<"i","s","s","u","e">>, <<"e","r","r","o","r">>, <<"r","e","s","o","l","v","e">>, <<"c","r","a","s","h">>}
DocsWords == {<<"d","o","c">>, <<"r","e","a","d","m","e">>, <<"c","o","m","m","e","n","t">>, <<"c","h","a","n","g","e","l","o","g">>, <<"u","p","d","a","t","e"," ","r","e","a","d","m","e">>}
StyleWords == {<<"s","t","y","l","e">>, <<"f","o","r","m","a","t">>, <<"i","n","d","e","n","t">>, <<"u","i">>, <<"u","x">>, <<"c","s","s">>, <<"s","t","y","l","i","n","g">>,
               <<"t","a","i","l","w","i","n","d">>}
RefactorWords == {<<"r","e","f","a","c","t","o","r">>, <<"r","e","s","t","r","u","c","t","u","r","e">>, <<"c","l","e","a","n">>, <<"o","p","t","i","m","i","z","e">>, <<"e","n","h","a","n","c","e">>}
PerfWords == {<<"p","e","r","f">>, <<"p","e","r","f","o","r","m","a","n","c","e">>, <<"s","p","e","e","d">>, <<"o","p","t","i","m","i","z","e">>}
TestWords == {<<"t","e","s","t">>, <<"s","p","e","c">>, <<"c","o","v","e","r","a","g","e">>, <<"t","e","s","t","i","n","g">>}
SecurityWords == {<<"s","e","c","u","r","i","t","y">>, <<"v","u","l","n","e","r","a","b","i","l","i","t","y">>, <<"a","u","t","h">>, <<"p","r","o","t","e","c","t">>}
RemoveWords == {<<"r","e","m","o","v","e">>, <<"d","e","l","e","t","e">>, <<"c","l","e","a","n","u","p">>, <<"d","e","p","r","e","c","a","t","e">>, <<"d","r","o","p">>}
DepsWords == {<<"d","e","p","s">>, <<"d","e","p","e","n","d","e","n","c","y">>, <<"p","a","c","k","a","g","e">>, <<"n","p","m">>, <<"y","a","r","n">>, <<"i","n","s","t","a","l","l">>}
ChangeWords == {<<"u","p","d","a","t","e">>, <<"c","h","a","n","g","e">>, <<"m","o","d","i","f","y">>, <<"i","m","p","r","o","v","e">>, <<"e","n","h","a","n","c","e">>}

\* any(word in message for word in words)
any_word(words, msg) == \E word \in words : contains(msg, word)

\* a faulty variant: the fix branch is tested before the feature branch
keyword_category_fix_first(msg) ==
    IF any_word(FixWords, msg) THEN "fix"
    ELSE IF any_word(FeatWords, msg) THEN "feat"
    ELSE IF any_word(DocsWords, msg) THEN "docs"
    ELSE IF any_word(StyleWords, msg) THEN "style"
    ELSE IF any_word(RefactorWords, msg) THEN "refactor"
    ELSE IF any_word(PerfWords, msg) THEN "perf"
    ELSE IF any_word(TestWords, msg) THEN "test"
    ELSE IF any_word(SecurityWords, msg) THEN "security"
    ELSE IF any_word(RemoveWords, msg) THEN "remove"
    ELSE IF any_word(DepsWords, msg) THEN "deps"
    ELSE "chore"

\* the keyword branches of categorize_commit
keyword_category(msg) ==
    IF any_word(FeatWords, msg) THEN "feat"
    ELSE IF any_word(FixWords, msg) THEN "fix"
    ELSE IF any_word(DocsWords, msg) THEN "docs"
    ELSE IF any_word(StyleWords, msg) THEN "style"
    ELSE IF any_word(RefactorWords, msg) THEN "refactor"
    ELSE IF any_word(PerfWords, msg) THEN "perf"
    ELSE IF any_word(TestWords, msg) THEN "test"
    ELSE IF any_word(SecurityWords, msg) THEN "security"
    ELSE IF any_word(RemoveWords, msg) THEN "remove"
    ELSE IF any_word(DepsWords, msg) THEN "deps"
    ELSE IF any_word(ChangeWords, msg) THEN "chore"
    ELSE "chore"

\* a faulty variant: the keyword heuristics are consulted before the conventional prefix
categorize_commit_keywords_first(commit_data) ==
    LET msg == lower(commit_data.message)
        matching == {i \in TypeIndex : startswith(msg, COMMIT_TYPES[i].key \o <<":">>)}
    IN  IF keyword_category(msg) # "chore" \/ matching = {}
        THEN keyword_category(msg)
        ELSE COMMIT_TYPES[Min(matching)].type

\* the commit type categorize_commit returns (the first component of its result;
\* the other two are the type's COMMIT_TYPES entry)
categorize_commit(commit_data) ==
    LET msg == lower(commit_data.message)
        matching == {i \in TypeIndex : startswith(msg, COMMIT_TYPES[i].key \o <<":">>)}
    IN  IF matching # {}
        THEN COMMIT_TYPES[Min(matching)].type
        ELSE keyword_category(msg)

---------------------------------------------------------------------------
(* clean_commit_message *)

\* the alternation of the regular expression, in its order
RegexTypes == <<<<"f","e","a","t">>, <<"f","i","x">>, <<"d","o","c","s">>, <<"s","t","y","l","e">>, <<"r","e","f","a","c","t","o","r">>, <<"p","e","r","f">>, <<"t","e","s","t">>,
                <<"c","h","o","r","e">>, <<"s","e","c","u","r","i","t","y">>, <<"b","u","i","l","d">>, <<"c","i">>, <<"r","e","v","e","r","t">>, <<"r","e","m","o","v","e">>,
                <<"d","e","p","s">>>>

\* re.sub(r'^(feat|...|deps):\s*', '', message, flags=re.IGNORECASE): the
\* pattern is anchored, so it matches at most once, at offset 0; \s* is greedy
regex_sub(msg) ==
    LET low == lower(msg)
        alts == {i \in 1..Len(RegexTypes) : startswith(low, RegexTypes[i] \o <<":">>)}
    IN  IF alts = {} THEN msg
        ELSE lstrip(slice_from(msg, Len(RegexTypes[Min(alts)]) + 1))

prefixes_to_remove == <<
    <<"f","e","a","t",":">>, <<"f","i","x",":">>, <<"d","o","c","s",":">>, <<"s","t","y","l","e",":">>, <<"r","e","f","a","c","t","o","r",":">>, <<"t","e","s","t",":">>, <<"c","h","o","r","e",":">>,
    <<"f","e","a","t","(">>, <<"f","i","x","(">>, <<"d","o","c","s","(">>, <<"s","t","y","l","e","(">>, <<"r","e","f","a","c","t","o","r","(">>, <<"t","e","s","t","(">>, <<"c","h","o","r","e","(">> >>

\* the loop over prefixes_to_remove: the first prefix that matches is cut off
\* and the remainder stripped of surrounding whitespace
remove_common_prefix(msg) ==
    LET low == lower(msg)
        hits == {i \in 1..Len(prefixes_to_remove) :
                    startswith(low, lower(prefixes_to_remove[i]))}
    IN  IF hits = {} THEN msg
        ELSE strip(slice_from(msg, Len(prefixes_to_remove[Min(hits)])))

\* message[0].upper() + message[1:]
capitalize_first(msg) ==
    IF msg = <<>> THEN msg ELSE <<upper_char(msg[1])>> \o Tail(msg)

clean_commit_message(msg) ==
    capitalize_first(remove_common_prefix(regex_sub(msg)))

---------------------------------------------------------------------------
(* format_commit_with_stats *)

\* ', '.join(parts)
RECURSIVE join_comma(_)
join_comma(parts) ==
    IF parts = <<>> THEN <<>>
    ELSE IF Len(parts) = 1 THEN parts[1]
    ELSE parts[1] \o <<","," ">> \o join_comma(Tail(parts))

\* a faulty variant: the statistics are appended with the deletions first
format_commit_deletions_first(msg, ins, del) ==
    LET clean_msg == clean_commit_message(msg)
        stats_parts == (IF del > 0 THEN <<<<"-">> \o str_int(del)>> ELSE <<>>)
                       \o (IF ins > 0 THEN <<<<"+">> \o str_int(ins)>> ELSE <<>>)
    IN  IF ins > 0 \/ del > 0
        THEN clean_msg \o <<" ","U+0060">> \o join_comma(stats_parts) \o <<"U+0060">>
        ELSE clean_msg

format_commit_with_stats(msg, ins, del) ==
    LET clean_msg == clean_commit_message(msg)
        stats_parts == (IF ins > 0 THEN <<<<"+">> \o str_int(ins)>> ELSE <<>>)
                       \o (IF del > 0 THEN <<<<"-">> \o str_int(del)>> ELSE <<>>)
    IN  IF ins > 0 \/ del > 0
        THEN clean_msg \o <<" ","U+0060">> \o join_comma(stats_parts) \o <<"U+0060">>
        ELSE clean_msg

---------------------------------------------------------------------------
(* generate_release_section *)

\* "## [{tag}] - {release_date}\n\n"
section_header(tag, date) == <<"#","#"," ","[">> \o tag \o <<"]"," ","-"," ">> \o date \o <<"\n","\n">>

\* the section of a release without commits
empty_section(tag, date) ==
    section_header(tag, date)
        \o <<"#","#","#"," ","U+2728"," ","A","d","d","e","d","\n","-"," ","N","/","A","\n","\n","#",
      "#","#"," ","U+1F527"," ","C","h","a","n","g","e","d","\n","-"," ","N","/","A","\n",
      "\n","#","#","#"," ","U+1F41B"," ","F","i","x","e","d","\n","-"," ","N","/","A","\n",
      "\n","-","-","-","\n","\n">>

\* categorized[commit_type]: the commits of one type, in their input order
categorized(commit_list, commit_type) ==
    SelectSeq(commit_list, LAMBDA c : categorize_commit(c) = commit_type)

\* "- {formatted_msg}\n" for each commit of the group
RECURSIVE bullets(_)
bullets(group) ==
    IF group = <<>> THEN <<>>
    ELSE <<"-"," ">>
         \o format_commit_with_stats(group[1].message, group[1].insertions,
                                     group[1].deletions)
         \o <<"\n">> \o bullets(Tail(group))

\* the heading and the bullets of one commit type, nothing for an empty group
group_text(commit_list, i) ==
    LET group == categorized(commit_list, COMMIT_TYPES[i].type)
    IN  IF group = <<>> THEN <<>>
        ELSE <<"#","#","#"," ">> \o COMMIT_TYPES[i].emoji \o <<" ">> \o COMMIT_TYPES[i].description
             \o <<"\n">> \o bullets(group) \o <<"\n">>

\* the types in the order in which the input first shows them
RECURSIVE first_occurrence_order(_, _)
first_occurrence_order(commit_list, seen) ==
    IF commit_list = <<>> THEN <<>>
    ELSE LET i == CHOOSE k \in TypeIndex :
                      COMMIT_TYPES[k].type = categorize_commit(commit_list[1])
         IN  IF i \in seen THEN first_occurrence_order(Tail(commit_list), seen)
             ELSE <<i>> \o first_occurrence_order(Tail(commit_list), seen \cup {i})

\* a faulty variant: the groups are emitted in the order of first occurrence in the input
generate_release_section_insertion_order(tag, commit_list, date) ==
    IF commit_list = <<>> THEN empty_section(tag, date)
    ELSE LET order == first_occurrence_order(commit_list, {})
         IN  section_header(tag, date)
             \o concat([k \in 1..Len(order) |-> group_text(commit_list, order[k])])
             \o <<"*","*","T","o","t","a","l"," ","C","h","a","n","g","e","s",":","*","*"," ">> \o str_int(Len(commit_list)) \o <<" ","c","o","m","m","i","t","s","\n","\n">>
             \o <<"-","-","-","\n","\n">>

generate_release_section(tag, commit_list, date) ==
    IF commit_list = <<>> THEN empty_section(tag, date)
    ELSE section_header(tag, date)
         \o concat([i \in TypeIndex |-> group_text(commit_list, i)])
         \o <<"*","*","T","o","t","a","l"," ","C","h","a","n","g","e","s",":","*","*"," ">> \o str_int(Len(commit_list)) \o <<" ","c","o","m","m","i","t","s","\n","\n">>
         \o <<"-","-","-","\n","\n">>

---------------------------------------------------------------------------
(* run_git_command and the queries built on it *)

\* what subprocess.run did: the launch failed with an exception ("oserror"),
\* the command ended with a non-zero return code ("nonzero") or with 0 ("ok");
\* "notrun" stands for a query the code did not issue
GitResult(status, out) == [status |-> status, stdout |-> out]
NotRun == GitResult("notrun", <<>>)

\* a faulty variant: the output is returned whatever the return code
run_git_command_ignoring_returncode(res) ==
    IF res.status \in {"oserror", "notrun"} THEN <<>> ELSE strip(res.stdout)

\* the str run_git_command returns: "" unless the command ended with 0
run_git_command(res) ==
    IF res.status = "ok" THEN strip(res.stdout) ELSE <<>>

\* s.split(sep) for a one-character sep
RECURSIVE split(_, _)
split(s, sep) ==
    LET at == {i \in 1..Len(s) : s[i] = sep}
    IN  IF at = {} THEN <<s>>
        ELSE <<SubSeq(s, 1, Min(at) - 1)>> \o split(SubSeq(s, Min(at) + 1, Len(s)), sep)

\* s.split(sep, maxsplit)
RECURSIVE split_max(_, _, _)
split_max(s, sep, maxsplit) ==
    LET at == {i \in 1..Len(s) : s[i] = sep}
    IN  IF at = {} \/ maxsplit = 0 THEN <<s>>
        ELSE <<SubSeq(s, 1, Min(at) - 1)>>
             \o split_max(SubSeq(s, Min(at) + 1, Len(s)), sep, maxsplit - 1)

IsDecimal(c) == \E k \in 1..Len(Digits) : Digits[k] = c

\* int(text) for a non-empty run of decimal digits
RECURSIVE int_of(_)
int_of(ds) ==
    IF ds = <<>> THEN 0
    ELSE 10 * int_of(SubSeq(ds, 1, Len(ds) - 1))
         + ((CHOOSE k \in 1..Len(Digits) : Digits[k] = ds[Len(ds)]) - 1)

\* re.search(r'(\d+)\s+<word>', line): group 1 of the leftmost match, <<>>
\* when there is none.  A match is a run of digits, then a run of blanks, then
\* the word; the blanks of a match are all the blanks in front of the word,
\* and the leftmost match takes the whole run of digits in front of them.
regex_count(line, word) ==
    LET BlankStart(k) == Min({j \in 1..(k - 1) : \A w \in j..(k - 1) : line[w] \in Whitespace})
        DigitStart(j) == Min({i \in 1..(j - 1) : \A d \in i..(j - 1) : IsDecimal(line[d])})
        words == {k \in 3..Len(line) :
                     /\ (k - 1) \in Occurrences(word, line)
                     /\ line[k - 1] \in Whitespace
                     /\ BlankStart(k) > 1
                     /\ IsDecimal(line[BlankStart(k) - 1])}
    IN  IF words = {} THEN <<>>
        ELSE LET k == Min(words)
             IN  SubSeq(line, DigitStart(BlankStart(k)), BlankStart(k) - 1)

\* get_commit_stats on the result of 'git show --shortstat <hash>'
get_commit_stats(res) ==
    LET stats == run_git_command(res)
        lines == split(strip(stats), "\n")
        found == {n \in 1..Len(lines) :
                     \/ contains(lines[n], <<"f","i","l","e","s"," ","c","h","a","n","g","e","d">>)
                     \/ contains(lines[n], <<"f","i","l","e"," ","c","h","a","n","g","e","d">>)}
    IN  IF stats = <<>> \/ found = {} THEN [insertions |-> 0, deletions |-> 0]
        ELSE LET stats_line == lines[Min(found)]
                 ins == regex_count(stats_line, <<"i","n","s","e","r","t","i","o","n">>)
                 del == regex_count(stats_line, <<"d","e","l","e","t","i","o","n">>)
             IN  [insertions |-> IF ins = <<>> THEN 0 ELSE int_of(ins),
                  deletions |-> IF del = <<>> THEN 0 ELSE int_of(del)]

\* the modelled repository: what 'git show --shortstat' answers for a hash
Shortstat(hash) ==
    IF hash = <<"h","1">>
    THEN GitResult("ok", <<"c","o","m","m","i","t"," ","h","1","\n","\n"," ","2"," ","f","i","l","e","s"," ","c",
      "h","a","n","g","e","d",","," ","1","5"," ","i","n","s","e","r","t","i","o","n","s","(",
      "+",")",","," ","3"," ","d","e","l","e","t","i","o","n","s","(","-",")","\n">>)
    ELSE IF hash = <<"h","2">>
    THEN GitResult("ok", <<" ","1"," ","f","i","l","e"," ","c","h","a","n","g","e","d",","," ","1"," ","i","n","s",
      "e","r","t","i","o","n","(","+",")","\n">>)
    ELSE IF hash = <<"h","3">>
    THEN GitResult("ok", <<"c","o","m","m","i","t"," ","h","3","\n">>)
    ELSE GitResult("nonzero", <<>>)

\* the loop over commits.split('\n') of get_commits_for_tag and
\* get_commits_between_tags: a line of fewer than five fields is skipped
RECURSIVE parse_commits(_)
parse_commits(lines) ==
    IF lines = <<>> THEN <<>>
    ELSE LET parts == split_max(lines[1], "|", 4)
         IN  IF strip(lines[1]) # <<>> /\ Len(parts) >= 5
             THEN LET st == get_commit_stats(Shortstat(parts[1]))
                  IN  <<[hash |-> parts[1], message |-> parts[2], author |-> parts[3],
                         date |-> parts[4], body |-> parts[5],
                         insertions |-> st.insertions, deletions |-> st.deletions]>>
                      \o parse_commits(Tail(lines))
             ELSE parse_commits(Tail(lines))

\* get_commits_for_tag, given the results of its rev-parse and log queries
get_commits_for_tag(rev, log) ==
    LET tag_hash == run_git_command(rev)
        out == run_git_command(log)
    IN  IF tag_hash = <<>> THEN <<>>
        ELSE IF out = <<>> THEN <<>>
        ELSE parse_commits(split(out, "\n"))

\* get_commits_between_tags for a non-empty from_tag, given the results of its
\* two rev-parse queries and of its log query
get_commits_between_tags(rev_from, rev_to, log) ==
    LET from_hash == run_git_command(rev_from)
        to_hash == run_git_command(rev_to)
        out == run_git_command(log)
    IN  IF from_hash = <<>> \/ to_hash = <<>> THEN <<>>
        ELSE IF out = <<>> THEN <<>>
        ELSE parse_commits(split(out, "\n"))

\* datetime.fromisoformat(date_str) succeeds: a date YYYY-MM-DD, alone or
\* followed by a time part
is_iso_date(s) ==
    /\ Len(s) >= 10
    /\ \A i \in {1, 2, 3, 4, 6, 7, 9, 10} : IsDecimal(s[i])
    /\ s[5] = "-" /\ s[8] = "-"
    /\ int_of(SubSeq(s, 6, 7)) \in 1..12
    /\ int_of(SubSeq(s, 9, 10)) \in 1..31
    /\ (Len(s) > 10 => s[11] \in {" ", "T"})

Unknown == <<"U","n","k","n","o","w","n">>

\* get_commit_date, given the result of 'git show -s --format=%ci <tag>'
get_commit_date(res) ==
    LET date_str == run_git_command(res)
    IN  IF date_str # <<>> /\ is_iso_date(date_str) THEN SubSeq(date_str, 1, 10)
        ELSE Unknown

---------------------------------------------------------------------------
(* update_changelog_for_tag *)

\* the document synthesized when CHANGELOG.md does not exist
DefaultChangelog ==
    <<"#"," ","C","h","a","n","g","e","l","o","g","\n","\n","A","l","l"," ","n","o","t","a",
      "b","l","e"," ","c","h","a","n","g","e","s"," ","t","o"," ","t","h","e"," ","L","i","f",
      "e","S","m","a","r","t"," ","C","a","l","c","u","l","a","t","o","r"," ","p","r","o","j",
      "e","c","t"," ","w","i","l","l"," ","b","e"," ","d","o","c","u","m","e","n","t","e","d",
      " ","i","n"," ","t","h","i","s"," ","f","i","l","e",".","\n","\n","T","h","e"," ","f",
      "o","r","m","a","t"," ","i","s"," ","b","a","s","e","d"," ","o","n"," ","[","K","e","e",
      "p"," ","a"," ","C","h","a","n","g","e","l","o","g","]","(","h","t","t","p","s",":","/",
      "/","k","e","e","p","a","c","h","a","n","g","e","l","o","g",".","c","o","m","/","e","n",
      "/","1",".","0",".","0","/",")",",","\n","a","n","d"," ","t","h","i","s"," ","p","r",
      "o","j","e","c","t"," ","a","d","h","e","r","e","s"," ","t","o"," ","[","S","e","m","a",
      "n","t","i","c"," ","V","e","r","s","i","o","n","i","n","g","]","(","h","t","t","p","s",
      ":","/","/","s","e","m","v","e","r",".","o","r","g","/","s","p","e","c","/","v","2",".",
      "0",".","0",".","h","t","m","l",")",".","\n","\n","#","#"," ","[","U","n","r","e","l",
      "e","a","s","e","d","]","\n","\n","#","#","#"," ","U+2728"," ","A","d","d","e","d","\n",
      "-"," ","N","/","A","\n","\n","#","#","#"," ","U+1F527"," ","C","h","a","n","g","e","d",
      "\n","-"," ","N","/","A","\n","\n","#","#","#"," ","U+1F41B"," ","F","i","x","e","d",
      "\n","-"," ","N","/","A","\n","\n","-","-","-","\n","\n">>

UnreleasedHeading == <<"#","#"," ","[","U","n","r","e","l","e","a","s","e","d","]">>
Separator == <<"-","-","-","\n","\n">>

\* [tag.strip() for tag in tags_output.split('\n') if tag.strip()]
RECURSIVE stripped_lines(_)
stripped_lines(lines) ==
    IF lines = <<>> THEN <<>>
    ELSE IF strip(lines[1]) # <<>>
    THEN <<strip(lines[1])>> \o stripped_lines(Tail(lines))
    ELSE stripped_lines(Tail(lines))

\* list.remove(x): the list without the first x
list_remove(list, x) ==
    LET at == {i \in 1..Len(list) : list[i] = x}
    IN  IF at = {} THEN list
        ELSE SubSeq(list, 1, Min(at) - 1) \o SubSeq(list, Min(at) + 1, Len(list))

\* existing_tags, given the result of 'git tag --sort=-version:refname'
list_existing_tags(res, tag) ==
    LET tags_output == run_git_command(res)
        listed == IF tags_output # <<>> THEN stripped_lines(split(tags_output, "\n"))
                  ELSE <<>>
    IN  list_remove(listed, tag)

\* a faulty variant: the release section is put in front of the document
splice_at_top(existing, section) == section \o existing

\* new_content: the section inserted into the existing text
splice(existing, section) ==
    LET unreleased_section_end == find(existing, Separator, find(existing, UnreleasedHeading, 0))
    IN  IF unreleased_section_end = -1
        THEN existing \o <<"\n">> \o section
        ELSE LET insert_pos == unreleased_section_end + 6
             IN  slice_to(existing, insert_pos) \o section \o slice_from(existing, insert_pos)

---------------------------------------------------------------------------
(* The pure functions applied to bounded inputs *)

\* the run of main() is not started in the specifications of the pure functions
RunOff ==
    /\ pc = "off" /\ runs = 0 /\ new_tag = <<>> /\ existing_tags = <<>>
    /\ git = <<>> /\ unreleased_commits = <<>> /\ release_date = <<>>
    /\ release_section = <<>> /\ existing_content = <<>>
    /\ file_exists = FALSE /\ file_content = <<>>
    /\ file_readable = TRUE /\ file_writable = TRUE /\ exit_code = -1

\* the longest body of the classifier's inputs, in fragments
MaxFrags == 2

\* what an input starts with: nothing, each type of COMMIT_TYPES as a
\* conventional prefix, and forms that are no "<type>:" prefix
MessageHeads ==
    {<<>>, <<"F","i","x",":"," ">>, <<"f","e","a","t","(","u","i",")",":"," ">>, <<"w","i","p",":"," ">>}
        \cup {COMMIT_TYPES[i].key \o <<":"," ">> : i \in TypeIndex}

Fragments == {<<"a","d","d"," ">>, <<"f","i","x"," ">>, <<"d","o","c","s"," ">>, <<"b","u","i","l","d"," ">>, <<"u","p","d","a","t","e"," ">>, <<"p","e","r","f"," ">>,
              <<"r","e","m","o","v","e"," ">>, <<"x">>, <<":">>}

RECURSIVE MessagesUpTo(_)
MessagesUpTo(k) ==
    IF k = 0 THEN {<<>>}
    ELSE LET shorter == MessagesUpTo(k - 1)
         IN  shorter \cup {m \o f : m \in shorter, f \in Fragments}

InitClassify ==
    /\ op = "idle"
    /\ message \in {h \o b : h \in MessageHeads, b \in MessagesUpTo(MaxFrags)}
    /\ insertions = 0 /\ deletions = 0 /\ commits = <<>>
    /\ result = "none"
    /\ RunOff

Categorize ==
    /\ op = "idle"
    /\ op' = "categorize"
    /\ result' = categorize_commit([message |-> message])
    /\ UNCHANGED <<message, insertions, deletions, commits, runVars>>

NextClassify == Categorize

SpecClassify == InitClassify /\ [][NextClassify]_vars

\* the conventional prefixes stacked in front of the cleaner's inputs
MaxPrefixes == 2

CleanPrefixes == {<<"f","e","a","t",":"," ">>, <<"f","i","x",":">>, <<"F","i","x",":"," ">>, <<"p","e","r","f",":"," ">>, <<"d","e","p","s",":","\t"," ">>, <<"f","e","a","t","(","u","i",")",":"," ">>,
                  <<"f","i","x","(","a","p","i",")",":">>, <<"p","e","r","f","(","c","o","r","e",")",":"," ">>, <<"R","E","F","A","C","T","O","R","(","x",")",":"," ">>, <<"w","i","p",":"," ">>}

CleanRests == {<<>>, <<"a","d","d"," ","x">>, <<"U","p","d","a","t","e"," ","t","h","e"," ","R","E","A","D","M","E"," ">>, <<"(","d","r","a","f","t",")"," ","y">>}

RECURSIVE PrefixesUpTo(_)
PrefixesUpTo(k) ==
    IF k = 0 THEN {<<>>}
    ELSE LET shorter == PrefixesUpTo(k - 1)
         IN  shorter \cup {p \o m : p \in CleanPrefixes, m \in shorter}

InitClean ==
    /\ op = "idle"
    /\ message \in {p \o r : p \in PrefixesUpTo(MaxPrefixes), r \in CleanRests}
    /\ insertions = 0 /\ deletions = 0 /\ commits = <<>>
    /\ result = <<>>
    /\ RunOff

Clean ==
    /\ op = "idle"
    /\ op' = "clean"
    /\ result' = clean_commit_message(message)
    /\ UNCHANGED <<message, insertions, deletions, commits, runVars>>

NextClean == Clean

SpecClean == InitClean /\ [][NextClean]_vars

\* the largest insertion or deletion count of the formatter's inputs
MaxStat == 11

FormatMessages == {<<"f","i","x",":"," ","r","e","s","o","l","v","e"," ","c","r","a","s","h"," ","o","n"," ",
      "d","i","v","i","d","e"," ","b","y"," ","z","e","r","o">>, <<"a","d","d"," ","c","h","a","r","t">>,
                   <<"D","o","c","s",":"," ","+","1"," ","s","e","c","t","i","o","n">>, <<"f","e","a","t","(","u","i",")",":"," ","n","e","w"," ","U+0060","d","a","r","k",
      "U+0060"," ","t","h","e","m","e">>, <<>>}

InitFormat ==
    /\ op = "idle"
    /\ message \in FormatMessages
    /\ insertions \in 0..MaxStat /\ deletions \in 0..MaxStat
    /\ commits = <<>>
    /\ result = <<>>
    /\ RunOff

Format ==
    /\ op = "idle"
    /\ op' = "format"
    /\ result' = format_commit_with_stats(message, insertions, deletions)
    /\ UNCHANGED <<message, insertions, deletions, commits, runVars>>

NextFormat == Format

SpecFormat == InitFormat /\ [][NextFormat]_vars

\* the longest commit sequence handed to the renderer
MaxCommits == 3

\* a commit record as the fetcher builds it
Commit(hash, msg, ins, del) ==
    [hash |-> hash, message |-> msg, author |-> "a", date |-> "d", body |-> "",
     insertions |-> ins, deletions |-> del]

RenderCommits == {
    Commit("h1", <<"f","i","x",":"," ","r","e","s","o","l","v","e"," ","c","r","a","s","h">>, 15, 3),
    Commit("h2", <<"a","d","d"," ","c","h","a","r","t">>, 0, 0),
    Commit("h3", <<"F","i","x"," ","t","y","p","o">>, 1, 0),
    Commit("h4", <<"d","o","c","s",":"," ","n","o","t","e">>, 0, 2),
    Commit("h5", <<"d","e","p","s",":"," ","b","u","m","p"," ","x">>, 0, 0) }

RECURSIVE SeqsUpTo(_, _)
SeqsUpTo(S, k) ==
    IF k = 0 THEN {<<>>}
    ELSE LET shorter == SeqsUpTo(S, k - 1)
         IN  shorter \cup {Append(q, x) : q \in shorter, x \in S}

RenderTag == <<"v","1",".","2",".","3">>
RenderDate == <<"2","0","2","4","-","0","5","-","0","1">>

InitRender ==
    /\ op = "idle"
    /\ message = <<>> /\ insertions = 0 /\ deletions = 0
    /\ commits \in SeqsUpTo(RenderCommits, MaxCommits)
    /\ result = <<>>
    /\ RunOff

Render ==
    /\ op = "idle"
    /\ op' = "render"
    /\ result' = generate_release_section(RenderTag, commits, RenderDate)
    /\ UNCHANGED <<message, insertions, deletions, commits, runVars>>

NextRender == Render

SpecRender == InitRender /\ [][NextRender]_vars

---------------------------------------------------------------------------
(* A run of main(), repeated up to MaxRuns times on the same CHANGELOG.md *)

\* invocations of the script
MaxRuns == 2

FnOff ==
    /\ op = "off" /\ message = <<>> /\ insertions = 0 /\ deletions = 0
    /\ commits = <<>> /\ result = <<>>

\* the tags the script is invoked with
Tags == {<<"v","1",".","2",".","3">>, <<"v","2",".","0",".","0">>}

\* datetime.now().strftime("%Y-%m-%d")
Today == <<"2","0","2","4","-","0","6","-","1","5">>

\* the documents CHANGELOG.md may hold before the first run
Documents == {
    <<"#"," ","C","h","a","n","g","e","l","o","g","\n","\n","#","#"," ","[","U","n","r","e",
      "l","e","a","s","e","d","]","\n","\n","#","#","#"," ","U+2728"," ","A","d","d","e","d",
      "\n","-"," ","N","/","A","\n","\n","-","-","-","\n","\n">>,
    <<"#"," ","C","h","a","n","g","e","l","o","g","\n","\n","#","#"," ","[","U","n","r","e",
      "l","e","a","s","e","d","]","\n","\n","-"," ","w","i","p","\n","\n","-","-","-","\n",
      "\n","#","#"," ","[","v","1",".","0",".","0","]"," ","-"," ","2","0","2","4","-","0",
      "1","-","0","1","\n","\n","#","#","#"," ","U+2728"," ","A","d","d","e","d"," ","N","e",
      "w"," ","f","e","a","t","u","r","e","s"," ","a","n","d"," ","e","n","h","a","n","c","e",
      "m","e","n","t","s","\n","-"," ","F","i","r","s","t","\n","\n","-","-","-","\n","\n">>,
    <<"#"," ","C","h","a","n","g","e","l","o","g","\n","\n","N","o","t","e","s",".","\n">>,
    <<"#"," ","C","h","a","n","g","e","l","o","g","\n","\n","-","-","-","\n","\n","#","#"," ",
      "[","U","n","r","e","l","e","a","s","e","d","]","\n","-"," ","w","i","p","\n">>,
    <<"#"," ","C","h","a","n","g","e","l","o","g","\n","\n","-","-","-","\n","\n","o","l","d",
      " ","n","o","t","e","s","\n">> }

\* what the version-control system may answer
GitDirResults == {GitResult("ok", <<".","g","i","t","\n">>), GitResult("nonzero", <<>>),
                  GitResult("oserror", <<>>)}
OnelineResults == {GitResult("ok", <<"a","1","b","2","c","3","d"," ","f","i","x",":"," ","r","e","s","o","l","v","e"," ","c",
      "r","a","s","h","\n">>), GitResult("ok", <<>>),
                   GitResult("nonzero", <<>>)}
TagResults == {GitResult("ok", <<"v","1",".","2",".","3","\n","v","1",".","0",".","0","\n","\n">>), GitResult("ok", <<" ","v","1",".","2",".","3","\n">>),
               GitResult("nonzero", <<>>)}
RevParseResults == {GitResult("ok", <<"a","1","b","2","c","3","d","4","\n">>), GitResult("nonzero", <<>>)}
LogResults == {
    GitResult("ok", <<"h","1","|","f","i","x",":"," ","r","e","s","o","l","v","e"," ","c","r","a","s","h","|",
      "A","n","n","|","M","o","n"," ","M","a","y"," ","6","|","f","i","r","s","t"," ","l","i",
      "n","e","\n","h","2","|","a","d","d"," ","c","h","a","r","t","|","B","o","b","|","T",
      "u","e"," ","M","a","y"," ","7","|","s","e","e","|","#","1","2","\n","h","3","|","D",
      "o","c","s",":"," ","n","o","t","e","|","C","i","d","|","W","e","d"," ","M","a","y"," ",
      "8","|","\n","h","4","|","c","h","o","r","e",":"," ","r","e","l","e","a","s","e"," ",
      "v","1",".","2",".","3","|","D","a","n","|","T","h","u"," ","M","a","y"," ","9","|">>),
    GitResult("ok", <<"h","1","|","f","i","x",":"," ","r","e","s","o","l","v","e"," ","c","r","a","s","h","|",
      "A","n","n","|","M","o","n"," ","M","a","y"," ","6","|","f","i","r","s","t"," ","l","i",
      "n","e","\n","s","e","c","o","n","d"," ","|"," ","l","i","n","e","\n","\n","h","2","|",
      "a","d","d"," ","c","h","a","r","t","|","B","o","b","|","T","u","e"," ","M","a","y"," ",
      "7","|","s","e","e","|","#","1","2","\n"," "," ","\n","h","3","|","D","o","c","s",":",
      " ","n","o","t","e","|","C","i","d","|","W","e","d"," ","M","a","y"," ","8","|","\n",
      "h","4","|","c","h","o","r","e",":"," ","r","e","l","e","a","s","e"," ","v","1",".","2",
      ".","3","|","D","a","n","|","T","h","u"," ","M","a","y"," ","9","|","\n">>),
    GitResult("ok", <<>>),
    GitResult("nonzero", <<>>),
    GitResult("nonzero", <<"h","1","|","f","i","x",":"," ","r","e","s","o","l","v","e"," ","c","r","a","s","h","|",
      "A","n","n","|","M","o","n"," ","M","a","y"," ","6","|">>),
    GitResult("oserror", <<>>) }
DateResults == {GitResult("ok", <<"2","0","2","4","-","0","5","-","0","1"," ","1","0",":","0","0",":","0","0"," ","+","0",
      "2","0","0","\n">>), GitResult("ok", <<"f","a","t","a","l">>),
                GitResult("nonzero", <<>>)}

NoQueries == [from_hash |-> "notrun", to_hash |-> "notrun", log |-> "notrun"]

InitRun ==
    /\ FnOff
    /\ pc = "idle" /\ runs = 0 /\ exit_code = -1
    /\ new_tag = <<>> /\ existing_tags = <<>> /\ git = NoQueries
    /\ unreleased_commits = <<>> /\ release_date = <<>> /\ release_section = <<>>
    /\ existing_content = <<>>
    /\ file_exists \in BOOLEAN
    /\ file_content \in (IF file_exists THEN Documents ELSE {<<>>})
    /\ file_readable \in BOOLEAN
    /\ file_writable \in BOOLEAN

fileVars == <<file_exists, file_content, file_readable, file_writable>>
localVars == <<existing_tags, git, unreleased_commits, release_date, release_section,
               existing_content>>

\* sys.exit(1)
Exit1 == pc' = "exit1" /\ exit_code' = 1

\* an exception no handler catches: the interpreter prints the traceback and
\* the process ends with status 1
Raise == pc' = "raised" /\ exit_code' = 1

\* main: the script is invoked with the arguments argv[1:]; the usage check
Main_Args ==
    /\ pc \in {"idle", "done", "exit1", "raised"}
    /\ runs < MaxRuns
    /\ runs' = runs + 1
    /\ existing_tags' = <<>> /\ git' = NoQueries /\ unreleased_commits' = <<>>
    /\ release_date' = <<>> /\ release_section' = <<>> /\ existing_content' = <<>>
    /\ \E args \in {<<>>} \cup {<<t>> : t \in Tags} :
          IF Len(args) + 1 # 2
          THEN Exit1 /\ new_tag' = <<>>
          ELSE pc' = "check_repo" /\ exit_code' = -1 /\ new_tag' = args[1]
    /\ UNCHANGED <<fnVars, fileVars>>

\* main: "Check if we're in a git repository"
Main_CheckRepo ==
    /\ pc = "check_repo"
    /\ \E res \in GitDirResults :
          IF run_git_command(res) = <<>>
          THEN Exit1
          ELSE pc' = "check_commits" /\ UNCHANGED exit_code
    /\ UNCHANGED <<fnVars, fileVars, localVars, runs, new_tag>>

\* main: "Check if there are any commits"
Main_CheckCommits ==
    /\ pc = "check_commits"
    /\ \E res \in OnelineResults :
          IF run_git_command(res) = <<>>
          THEN Exit1
          ELSE pc' = "list_tags" /\ UNCHANGED exit_code
    /\ UNCHANGED <<fnVars, fileVars, localVars, runs, new_tag>>

\* update_changelog_for_tag: "Get all existing tags"
ListTags ==
    /\ pc = "list_tags"
    /\ \E res \in TagResults : existing_tags' = list_existing_tags(res, new_tag)
    /\ pc' = "fetch"
    /\ UNCHANGED <<fnVars, fileVars, runs, new_tag, git, unreleased_commits, release_date,
                   release_section, existing_content, exit_code>>

\* update_changelog_for_tag: "Get commits since last tag (unreleased)".  The
\* log query is issued only when the rev-parse queries gave a hash.
FetchCommits ==
    /\ pc = "fetch"
    /\ IF existing_tags # <<>>
       THEN \E rev_from \in RevParseResults, rev_to \in RevParseResults,
               log \in LogResults \cup {NotRun} :
               /\ (log = NotRun) <=> (run_git_command(rev_from) = <<>>
                                        \/ run_git_command(rev_to) = <<>>)
               /\ git' = [from_hash |-> rev_from.status, to_hash |-> rev_to.status,
                          log |-> log.status]
               /\ unreleased_commits' = get_commits_between_tags(rev_from, rev_to, log)
       ELSE \E rev \in RevParseResults, log \in LogResults \cup {NotRun} :
               /\ (log = NotRun) <=> (run_git_command(rev) = <<>>)
               /\ git' = [from_hash |-> "notrun", to_hash |-> rev.status, log |-> log.status]
               /\ unreleased_commits' = get_commits_for_tag(rev, log)
    /\ pc' = "date"
    /\ UNCHANGED <<fnVars, fileVars, runs, new_tag, existing_tags, release_date,
                   release_section, existing_content, exit_code>>

\* update_changelog_for_tag: "Get release date for new tag"
ReleaseDate ==
    /\ pc = "date"
    /\ \E res \in DateResults :
          release_date' = IF get_commit_date(res) = Unknown THEN Today
                          ELSE get_commit_date(res)
    /\ pc' = "render"
    /\ UNCHANGED <<fnVars, fileVars, runs, new_tag, existing_tags, git, unreleased_commits,
                   release_section, existing_content, exit_code>>

\* update_changelog_for_tag: "Generate release section for the new tag"
GenerateSection ==
    /\ pc = "render"
    /\ release_section' = generate_release_section(new_tag, unreleased_commits, release_date)
    /\ pc' = "read"
    /\ UNCHANGED <<fnVars, fileVars, runs, new_tag, existing_tags, git, unreleased_commits,
                   release_date, existing_content, exit_code>>

\* update_changelog_for_tag: "Read existing changelog"; open() and read() are
\* not inside a try
ReadChangelog ==
    /\ pc = "read"
    /\ IF file_exists
       THEN IF file_readable
            THEN existing_content' = file_content /\ pc' = "write" /\ UNCHANGED exit_code
            ELSE Raise /\ UNCHANGED existing_content
       ELSE existing_content' = DefaultChangelog /\ pc' = "write" /\ UNCHANGED exit_code
    /\ UNCHANGED <<fnVars, fileVars, runs, new_tag, existing_tags, git, unreleased_commits,
                   release_date, release_section>>

\* update_changelog_for_tag: "Find the position to insert the new release" and
\* "Write the updated changelog", then the return to main, which ends the run
WriteChangelog ==
    /\ pc = "write"
    /\ IF file_writable
       THEN /\ file_content' = splice(existing_content, release_section)
            /\ file_exists' = TRUE
            /\ pc' = "done" /\ exit_code' = 0
       ELSE Raise /\ UNCHANGED <<file_content, file_exists>>
    /\ UNCHANGED <<fnVars, file_readable, file_writable, runs, new_tag, localVars>>

NextRun ==
    \/ Main_Args
    \/ Main_CheckRepo
    \/ Main_CheckCommits
    \/ ListTags
    \/ FetchCommits
    \/ ReleaseDate
    \/ GenerateSection
    \/ ReadChangelog
    \/ WriteChangelog

SpecRun == InitRun /\ [][NextRun]_vars

---------------------------------------------------------------------------
(* Properties of categorize_commit *)

HasTypePrefix(msg) ==
    \E i \in TypeIndex : startswith(lower(msg), COMMIT_TYPES[i].key \o <<":">>)

\* C1: a message whose lower-cased text starts with "<type>:" for a type of
\* COMMIT_TYPES is categorized as exactly that type, whatever trigger words
\* the rest of the message holds.
C1_PrefixWins ==
    op = "categorize" =>
        \A i \in TypeIndex :
            startswith(lower(message), COMMIT_TYPES[i].key \o <<":">>)
                => result = COMMIT_TYPES[i].type

\* a "fix:" message that also holds the feature word "add" was categorized
C1_Witness ==
    /\ op = "categorize"
    /\ startswith(lower(message), <<"f","i","x",":">>)
    /\ contains(lower(message), <<"a","d","d">>)
    /\ result = "fix"

\* the priority order of the keyword heuristics
KeywordPriority == <<
    [type |-> "feat", words |-> FeatWords], [type |-> "fix", words |-> FixWords],
    [type |-> "docs", words |-> DocsWords], [type |-> "style", words |-> StyleWords],
    [type |-> "refactor", words |-> RefactorWords], [type |-> "perf", words |-> PerfWords],
    [type |-> "test", words |-> TestWords], [type |-> "security", words |-> SecurityWords],
    [type |-> "remove", words |-> RemoveWords], [type |-> "deps", words |-> DepsWords],
    [type |-> "chore", words |-> ChangeWords] >>

\* C2: a message without a "<type>:" prefix is categorized as the first
\* category of the priority order one of whose trigger words occurs anywhere
\* in the lower-cased message, and as chore when none occurs.
C2_FirstCategoryByPriority ==
    (op = "categorize" /\ ~HasTypePrefix(message)) =>
        LET hit == {k \in 1..Len(KeywordPriority) :
                       \E w \in KeywordPriority[k].words :
                           Occurrences(w, lower(message)) # {}}
        IN  result = IF hit = {} THEN "chore" ELSE KeywordPriority[Min(hit)].type

\* a fix word stands before a feature word in the message, and the category
\* is the one of higher priority, not the one met first in the text
C2_Witness ==
    /\ op = "categorize"
    /\ ~HasTypePrefix(message)
    /\ Occurrences(<<"f","i","x">>, lower(message)) # {}
    /\ Occurrences(<<"a","d","d">>, lower(message)) # {}
    /\ Min(Occurrences(<<"f","i","x">>, lower(message))) < Min(Occurrences(<<"a","d","d">>, lower(message)))
    /\ result = "feat"

---------------------------------------------------------------------------
(* Properties of clean_commit_message and format_commit_with_stats *)

\* msg without one leading "type:" or "type(scope):" prefix of a recognized
\* type (matched case-insensitively) and without the blanks that follow it
WithoutOnePrefix(msg) ==
    LET low == lower(msg)
        plain == {i \in 1..Len(RegexTypes) : startswith(low, RegexTypes[i] \o <<":">>)}
        scoped == {i \in 1..Len(RegexTypes) :
                      /\ startswith(low, RegexTypes[i] \o <<"(">>)
                      /\ find(low, <<")",":">>, Len(RegexTypes[i])) # -1}
    IN  IF plain # {}
        THEN lstrip(slice_from(msg, Len(RegexTypes[Min(plain)]) + 1))
        ELSE IF scoped # {}
        THEN lstrip(slice_from(msg, find(low, <<")",":">>, Len(RegexTypes[Min(scoped)])) + 2))
        ELSE msg

\* C3: clean_commit_message removes one leading prefix "type:" or
\* "type(scope):" (the whole of it), and no second one, and capitalizes the
\* first character of what remains.  Trailing blanks are not compared.
C3_StripsOnePrefix ==
    op = "clean" =>
        rstrip(result) = rstrip(capitalize_first(WithoutOnePrefix(message)))

\* the value of a sequence of decimal digits
RECURSIVE DecimalValue(_)
DecimalValue(ds) ==
    IF ds = <<>> THEN 0
    ELSE 10 * DecimalValue(SubSeq(ds, 1, Len(ds) - 1))
         + ((CHOOSE k \in 1..10 : Digits[k] = ds[Len(ds)]) - 1)

IsDigit(c) == \E k \in 1..10 : Digits[k] = c

\* the digits that follow offset i of s, up to the first character that is none
DigitsAfter(s, i) ==
    LET stop == {j \in (i + 1)..Len(s) : ~IsDigit(s[j])}
    IN  SubSeq(s, i + 1, IF stop = {} THEN Len(s) ELSE Min(stop) - 1)

\* C6: with both counts zero format_commit_with_stats returns the cleaned
\* message alone; otherwise the cleaned message is followed by a blank and a
\* backtick-wrapped annotation that holds "+n" exactly when n > 0 and "-m"
\* exactly when m > 0, the insertions first, joined by ", ".
C6_StatsAnnotation ==
    op = "format" =>
        LET clean == clean_commit_message(message)
            body == SubSeq(result, Len(clean) + 3, Len(result) - 1)
            plus == {i \in 1..Len(body) : body[i] = "+"}
            minus == {i \in 1..Len(body) : body[i] = "-"}
        IN  IF insertions = 0 /\ deletions = 0
            THEN result = clean
            ELSE /\ startswith(result, clean \o <<" ","U+0060">>)
                 /\ result[Len(result)] = "U+0060"
                 /\ Len(result) > Len(clean) + 3
                 /\ (insertions = 0) = (plus = {})
                 /\ (deletions = 0) = (minus = {})
                 /\ insertions > 0 =>
                        /\ plus = {1}
                        /\ DigitsAfter(body, 1) # <<>>
                        /\ DecimalValue(DigitsAfter(body, 1)) = insertions
                 /\ deletions > 0 =>
                        /\ Cardinality(minus) = 1
                        /\ DigitsAfter(body, Min(minus)) # <<>>
                        /\ DecimalValue(DigitsAfter(body, Min(minus))) = deletions
                        /\ Min(minus) + Len(DigitsAfter(body, Min(minus))) = Len(body)
                 /\ (insertions > 0 /\ deletions > 0) =>
                        SubSeq(body, Len(DigitsAfter(body, 1)) + 2, Min(minus) - 1) = <<","," ">>
                 /\ (insertions = 0 /\ deletions > 0) => minus = {1}
                 /\ (insertions > 0 /\ deletions = 0) =>
                        Len(body) = 1 + Len(DigitsAfter(body, 1))

\* a commit with two-digit insertions and some deletions was formatted
C6_Witness ==
    /\ op = "format"
    /\ insertions >= 10 /\ deletions > 0
    /\ message # <<>>
    /\ endswith(result, <<"U+0060">>)

---------------------------------------------------------------------------
(* Properties of generate_release_section *)

\* s.split("\n")
RECURSIVE SplitLines(_)
SplitLines(s) ==
    LET nl == {i \in 1..Len(s) : s[i] = "\n"}
    IN  IF nl = {} THEN <<s>>
        ELSE <<SubSeq(s, 1, Min(nl) - 1)>> \o SplitLines(SubSeq(s, Min(nl) + 1, Len(s)))

\* the heading line of a commit type
HeadingLine(i) ==
    <<"#","#","#"," ">> \o COMMIT_TYPES[i].emoji \o <<" ">> \o COMMIT_TYPES[i].description

\* the lines that follow line h of lines, up to the first that is no bullet
BulletsBelow(lines, h) ==
    LET stop == {j \in (h + 1)..Len(lines) : ~startswith(lines[j], <<"-"," ">>)}
    IN  SubSeq(lines, h + 1, IF stop = {} THEN Len(lines) ELSE Min(stop) - 1)

\* the indexes of S in increasing order
RECURSIVE Sorted(_)
Sorted(S) == IF S = {} THEN <<>> ELSE <<Min(S)>> \o Sorted(S \ {Min(S)})

\* C5: for a non-empty commit sequence every commit is one bullet under the
\* heading of the type categorize_commit gives it; the headings stand in the
\* declared order of COMMIT_TYPES, a type without commits has no heading, and
\* the bullets of a group keep the input order.
C5_GroupsInDeclaredOrder ==
    (op = "render" /\ commits # <<>>) =>
        LET lines == SplitLines(result)
            headings == {h \in 1..Len(lines) : startswith(lines[h], <<"#","#","#"," ">>)}
            bulletLines == {b \in 1..Len(lines) : startswith(lines[b], <<"-"," ">>)}
            present == {i \in TypeIndex :
                           \E k \in 1..Len(commits) :
                               categorize_commit(commits[k]) = COMMIT_TYPES[i].type}
            hs == Sorted(headings)
            ts == Sorted(present)
        IN  /\ Cardinality(bulletLines) = Len(commits)
            /\ Len(hs) = Len(ts)
            /\ \A n \in 1..Len(hs) :
                   /\ lines[hs[n]] = HeadingLine(ts[n])
                   /\ LET mine == SelectSeq(commits,
                                      LAMBDA c : categorize_commit(c) = COMMIT_TYPES[ts[n]].type)
                      IN  BulletsBelow(lines, hs[n]) =
                              [k \in 1..Len(mine) |->
                                  <<"-"," ">> \o format_commit_with_stats(
                                      mine[k].message, mine[k].insertions, mine[k].deletions)]

\* three commits were rendered, the first a dependency update (the last type
\* of COMMIT_TYPES) and two later ones fixes, the older of them with statistics
C5_Witness ==
    /\ op = "render"
    /\ Len(commits) = 3
    /\ categorize_commit(commits[1]) = "deps"
    /\ categorize_commit(commits[2]) = "fix" /\ commits[2].insertions > 0
    /\ categorize_commit(commits[3]) = "fix" /\ commits[3] # commits[2]

---------------------------------------------------------------------------
(* Properties of a run *)

\* the offset just behind the first "---\n\n" that follows "## [Unreleased]"
\* in doc, -1 when the heading or the separator is missing
AfterSeparator(doc) ==
    LET heading == Occurrences(UnreleasedHeading, doc)
        seps == IF heading = {} THEN {}
                ELSE {i \in Occurrences(Separator, doc) : i >= Min(heading)}
    IN  IF seps = {} THEN -1 ELSE Min(seps) + Len(Separator)

\* C4: the release section is inserted immediately after the first separator
\* that follows the "## [Unreleased]" heading: the text up to and including
\* the separator precedes it unchanged and the text after the separator
\* follows it unchanged; without such a separator the section is appended.
C4_InsertedAfterSeparator ==
    pc = "done" =>
        LET at == AfterSeparator(existing_content)
        IN  IF at = -1
            THEN /\ startswith(file_content, existing_content)
                 /\ endswith(file_content, release_section)
            ELSE file_content = SubSeq(existing_content, 1, at) \o release_section
                                    \o SubSeq(existing_content, at + 1, Len(existing_content))

\* C7 as stated: after a run that found no CHANGELOG.md the tag string occurs
\* exactly once in the document, behind the separator of the Unreleased
\* section.
C7_TagOccursOnce ==
    (pc = "done" /\ existing_content = DefaultChangelog) =>
        /\ Cardinality(Occurrences(new_tag, file_content)) = 1
        /\ \A i \in Occurrences(new_tag, file_content) : i >= AfterSeparator(DefaultChangelog)

\* the offsets of doc at which a line starts with the heading of the release
ReleaseHeadings(doc, tag) ==
    {i \in Occurrences(<<"#","#"," ","[">> \o tag \o <<"]"," ","-"," ">>, doc) : i = 0 \/ doc[i] = "\n"}

\* C7 (amended): after a run that found no CHANGELOG.md exactly one line of
\* the document starts with the release heading "## [<tag>] - ", and it stands
\* behind the separator of the Unreleased section.
C7_HeadingOccursOnce ==
    (pc = "done" /\ existing_content = DefaultChangelog) =>
        /\ Cardinality(ReleaseHeadings(file_content, new_tag)) = 1
        /\ \A i \in ReleaseHeadings(file_content, new_tag) :
               i >= AfterSeparator(DefaultChangelog)

\* a run without CHANGELOG.md wrote the default document with the section of a
\* release that has commits
C7_Witness ==
    /\ pc = "done"
    /\ existing_content = DefaultChangelog
    /\ unreleased_commits # <<>>
    /\ file_content = DefaultChangelog \o release_section

\* one of the queries the fetcher issued failed
FetchQueryFailed ==
    \E q \in {"from_hash", "to_hash", "log"} : git[q] \in {"nonzero", "oserror"}

\* what holds in every state of a run whose fetch query failed
FailedFetchState ==
    (pc \in {"date", "render", "read", "write", "done", "raised"} /\ FetchQueryFailed) =>
        /\ unreleased_commits = <<>>
        /\ pc \in {"date", "render", "read", "write"} => exit_code = -1
        /\ pc \in {"read", "write", "done", "raised"} =>
               release_section = empty_section(new_tag, release_date)
        /\ pc = "raised" => (~file_readable \/ ~file_writable)
        /\ pc = "done" =>
               /\ exit_code = 0
               /\ file_exists
               /\ contains(file_content, empty_section(new_tag, release_date))

\* the steps of a run whose fetch query failed: from the fetch on it goes
\* through the date, the rendering, the read and the write, and only open()
\* or read()/write() on CHANGELOG.md can end it early
FailedFetchStep ==
    (pc' # pc /\ FetchQueryFailed') =>
        \/ pc = "fetch" /\ pc' = "date"
        \/ pc = "date" /\ pc' = "render"
        \/ pc = "render" /\ pc' = "read"
        \/ pc = "read" /\ pc' = (IF file_exists /\ ~file_readable THEN "raised" ELSE "write")
        \/ pc = "write" /\ pc' = (IF file_writable THEN "done" ELSE "raised")

\* C8: when a query of get_commits_for_tag or get_commits_between_tags fails,
\* the fetcher returns the empty sequence and raises nothing; the run goes
\* on, renders the section of a release without commits and writes the
\* document with it, ending with status 0 (a CHANGELOG.md that cannot be
\* opened is the only thing that stops it).
C8_FetcherFailsSoftly ==
    []FailedFetchState /\ [][FailedFetchStep]_vars

\* a run whose log query failed ended with the document written
C8_Witness ==
    /\ pc = "done"
    /\ git.log \in {"nonzero", "oserror"}
    /\ exit_code = 0
    /\ contains(file_content, empty_section(new_tag, release_date))

\* C9: a run on a document that already holds the release section it renders
\* (the document a first run with the same tag left, the repository
\* unchanged) leaves the document as it was.
C9_SecondRunChangesNothing ==
    (pc = "done" /\ contains(existing_content, release_section)) =>
        file_content = existing_content

\* C10: no run ends in an exception that leaves main.
C10_NoExceptionLeavesMain ==
    pc # "raised"

=============================================================================
